---- MODULE Spec2Model ----
(***************************************************************************)
(* Model of QuantumMissionControl (src/productivity_analysis.py): the      *)
(* constructor with its validation and its seeding of the process-wide     *)
(* random generator, pink_noise, and run_simulation.                       *)
(*                                                                         *)
(* Number representation.  The program computes in IEEE doubles; the model *)
(* computes in fixed point:                                                *)
(*   - fidelities, noise and frequency bins in millionths (1.0 = One),     *)
(*   - temperatures, gaussian draws, sines and spectra in thousandths,     *)
(*   - a day value t / 24.0 as the numerator t over the denominator        *)
(*     HoursPerDay, compared by cross-multiplication,                      *)
(*   - a non-finite double (inf or nan) as the value NaN, which every      *)
(*     arithmetic step propagates.                                         *)
(* Arrays are functions on 0 .. n-1, as numpy indexes them.                *)
(*                                                                         *)
(* The process-wide generator (numpy's MT19937 with its gaussian stream)   *)
(* is modelled as a full-period 16-bit linear congruential generator whose *)
(* state selects one of sixteen normal quantiles: seeding sets the state   *)
(* from the seed alone, every gaussian draw advances it by one step.       *)
(***************************************************************************)
EXTENDS Integers, Sequences, FiniteSets, TLC

(***************************************************************************)
(* Bounds of the model.                                                    *)
(***************************************************************************)
MaxDays == 2
MaxRuns == 2
MaxN == 6

(***************************************************************************)
(* Program constants.                                                      *)
(***************************************************************************)
HoursPerDay == 24
One == 1000000
TempMean == 15000
TempAmp == 5
BaseSc == 700000
SensSc == 12
BaseTi == 850000
SensTi == 4
UpliftSc == 220000
UpliftTi == 70000
NoiseScale == 20

(***************************************************************************)
(* Non-finite doubles.                                                     *)
(***************************************************************************)
NaN == -2000000000

\* The array g with every element computed (TLC otherwise recomputes an
\* element of an array expression at each use).
Array(g) == g @@ << >>

(***************************************************************************)
(* The process-wide generator.                                             *)
(***************************************************************************)
RngModulus == 65536
RngMul == 25173
RngInc == 13849

Quantiles ==
  << -1863, -1318, -1010, -776, -579, -402, -237, -78,
     78, 237, 402, 579, 776, 1010, 1318, 1863 >>

\* np.random.seed(seed): the whole generator state is a function of the seed.
np_random_seed(seed) == (seed * 40503 + 12345) % RngModulus

\* One step of the generator.
RngStep(s) == (RngMul * s + RngInc) % RngModulus

\* The gaussian the generator yields in state s, in thousandths.
Gauss(s) == Quantiles[(s \div 4096) + 1]

\* The k successive generator states after state s, as a sequence (built by
\* halving, so that the evaluation stays shallow).
RECURSIVE RngStates(_, _)
RngStates(s, k) ==
  IF k <= 0 THEN << >>
  ELSE IF k = 1 THEN << RngStep(s) >>
  ELSE LET h == k \div 2
           left == RngStates(s, h)
       IN  left \o RngStates(left[h], k - h)

\* The generator state k steps after s.
RngAdvance(s, k) == IF k <= 0 THEN s ELSE RngStates(s, k)[k]

\* np.random.randn(n) and np.random.normal(0, 1, n) from generator state s:
\* n successive gaussians, as an array on 0 .. n-1.
DrawN(s, n) ==
  LET st == RngStates(s, n) IN Array([j \in 0 .. n - 1 |-> Gauss(st[j + 1])])

(***************************************************************************)
(* Elementary functions.                                                   *)
(***************************************************************************)
\* sin(pi * a / b) for 0 <= a <= b, in thousandths (Bhaskara's rational
\* approximation, exact at 0, pi/6, pi/2, 5pi/6 and pi).
SinHalfTurn(a, b) == (16000 * a * (b - a)) \div (5 * b * b - 4 * a * (b - a))

\* sin(2 * pi * m / n), in thousandths, for any integer m and n >= 1.
Sin(m, n) ==
  LET a == (2 * m) % (2 * n)
  IN  IF a <= n THEN SinHalfTurn(a, n) ELSE 0 - SinHalfTurn(a - n, n)

\* cos(2 * pi * m / n), in thousandths.
Cos(m, n) ==
  LET a == (4 * m + n) % (4 * n)
  IN  IF a <= 2 * n THEN SinHalfTurn(a, 2 * n)
      ELSE 0 - SinHalfTurn(a - 2 * n, 2 * n)

\* The transform lengths the model uses, and the sines and cosines of their
\* angles, tabulated once.
Lengths == (1 .. MaxN) \cup {HoursPerDay * d : d \in 1 .. MaxDays}
SinTable == [n \in Lengths |-> Array([m \in 0 .. n - 1 |-> Sin(m, n)])]
CosTable == [n \in Lengths |-> Array([m \in 0 .. n - 1 |-> Cos(m, n)])]

RECURSIVE SqrtSearch(_, _, _)
SqrtSearch(x, lo, hi) ==
  IF lo >= hi THEN lo
  ELSE LET mid == (lo + hi + 1) \div 2
       IN  IF mid * mid <= x THEN SqrtSearch(x, mid, hi)
           ELSE SqrtSearch(x, lo, mid - 1)

\* np.sqrt of a value in millionths, in thousandths.
Sqrt(x) == IF x = NaN \/ x < 0 THEN NaN ELSE SqrtSearch(x, 0, 2000)

\* g[lo] + ... + g[hi]
RECURSIVE Sum(_, _, _)
Sum(g, lo, hi) ==
  IF hi < lo THEN 0
  ELSE IF hi = lo THEN g[lo]
  ELSE LET mid == (lo + hi) \div 2
       IN  Sum(g, lo, mid) + Sum(g, mid + 1, hi)

(***************************************************************************)
(* pink_noise.                                                             *)
(***************************************************************************)
\* np.fft.rfftfreq(n): the bins k / n, k = 0 .. n // 2, in millionths.
rfftfreq(n) == [k \in 0 .. (n \div 2) |-> (k * One) \div n]

\* A noise generator that leaves the DC bin at zero.
ClampNone(f) == f

\* f[0] = 1.0
ClampDC(f) == [f EXCEPT ![0] = One]

\* np.fft.rfft(white): bin k is sum_j white[j] * exp(-2 pi i j k / n).
rfft(white, n) ==
  LET c == CosTable[n]
      s == SinTable[n]
  IN  Array([k \in 0 .. (n \div 2) |->
        [re |-> Sum([j \in 0 .. n - 1 |-> white[j] * c[(j * k) % n]], 0, n - 1)
                  \div 1000,
         im |-> (0 - Sum([j \in 0 .. n - 1 |-> white[j] * s[(j * k) % n]],
                         0, n - 1)) \div 1000]])

\* One complex coefficient divided by a real divisor (both in thousandths):
\* a zero divisor gives a non-finite quotient.
DivideBin(c, d) ==
  IF d = NaN \/ d = 0 THEN [re |-> NaN, im |-> NaN]
  ELSE [re |-> (c.re * 1000) \div d, im |-> (c.im * 1000) \div d]

\* np.fft.irfft(spectrum, n): the real inverse transform; the imaginary parts
\* of the DC bin and, for even n, of the Nyquist bin are ignored.  One
\* non-finite coefficient makes every sample non-finite.
irfft(spectrum, n) ==
  LET K == n \div 2
      last == IF n % 2 = 0 THEN K - 1 ELSE K
      bad == \E k \in 0 .. K : spectrum[k].re = NaN \/ spectrum[k].im = NaN
      c == CosTable[n]
      s == SinTable[n]
  IN  Array([t \in 0 .. n - 1 |->
        IF bad THEN NaN
        ELSE (spectrum[0].re
              + 2 * Sum([k \in 1 .. last |->
                           (spectrum[k].re * c[(k * t) % n]
                            - spectrum[k].im * s[(k * t) % n]) \div 1000],
                        1, last)
              + (IF n % 2 = 0 /\ K >= 1
                 THEN (spectrum[K].re * c[(K * t) % n]) \div 1000 ELSE 0))
             \div n])

\* The divisors np.sqrt(f) of pink_noise(n), after the DC clamp.
Divisors(n) ==
  LET f == ClampDC(rfftfreq(n)) IN Array([k \in DOMAIN f |-> Sqrt(f[k])])

\* pink_noise(n) from generator state s: the samples, in thousandths.
pink_noise(s, n) ==
  LET white == DrawN(s, n)
      d == Divisors(n)
      raw == rfft(white, n)
      spectrum == Array([k \in DOMAIN raw |-> DivideBin(raw[k], d[k])])
  IN  irfft(spectrum, n)

(***************************************************************************)
(* The constructor.                                                        *)
(***************************************************************************)
\* A validation that does not bound qec_day from above.
ValidNoUpper(duration_days, qec_day) == ~(duration_days <= 0 \/ qec_day < 0)

\* The condition of line 30, negated: the configuration passes validation.
Valid(duration_days, qec_day) ==
  ~(duration_days <= 0 \/ qec_day < 0 \/ qec_day > duration_days)

\* np.random.seed accepts an integer seed in 0 .. 2^32 - 1 and raises
\* ValueError for any other, leaving the generator as it was.  (Every integer
\* of the model is below 2^32.)
SeedOk(seed) == seed >= 0

\* self.ticks = duration_days * 24
Ticks(duration_days) == duration_days * HoursPerDay

\* An object whose __init__ has stored nothing.
Blank == [stored |-> FALSE, duration_days |-> 0, ticks |-> 0, qec_day |-> 0]

\* A constructor that seeds the generator before it validates.
QuantumMissionControlSeedFirst(duration_days, qec_day, seed, g) ==
  LET g1 == IF seed >= 0 THEN (seed * 40503 + 12345) % RngModulus ELSE g
      n1 == IF seed >= 0 THEN 1 ELSE 0
  IN  IF seed < 0
      THEN [self |-> [stored |-> FALSE, duration_days |-> 0, ticks |-> 0,
                      qec_day |-> 0],
            err |-> "SeedOutOfRange", rng |-> g, seeded |-> 0]
      ELSE IF duration_days <= 0 \/ qec_day < 0 \/ qec_day > duration_days
      THEN [self |-> [stored |-> FALSE, duration_days |-> 0, ticks |-> 0,
                      qec_day |-> 0],
            err |-> "InvalidConfiguration", rng |-> g1, seeded |-> n1]
      ELSE [self |-> [stored |-> TRUE, duration_days |-> duration_days,
                      ticks |-> duration_days * HoursPerDay,
                      qec_day |-> qec_day],
            err |-> "", rng |-> g1, seeded |-> n1]

\* QuantumMissionControl(duration_days, qec_day, seed) with the generator in
\* state g: the object as __init__ leaves it, the error raised ("" for none),
\* the generator afterwards and the number of times it was seeded.
QuantumMissionControl(duration_days, qec_day, seed, g) ==
  IF ~Valid(duration_days, qec_day)
  THEN [self |-> Blank, err |-> "InvalidConfiguration", rng |-> g, seeded |-> 0]
  ELSE LET self == [stored |-> TRUE,
                    duration_days |-> duration_days,
                    ticks |-> Ticks(duration_days),
                    qec_day |-> qec_day]
       IN  IF SeedOk(seed)
           THEN [self |-> self, err |-> "", rng |-> np_random_seed(seed),
                 seeded |-> 1]
           ELSE [self |-> self, err |-> "SeedOutOfRange", rng |-> g, seeded |-> 0]

(***************************************************************************)
(* run_simulation.                                                         *)
(***************************************************************************)
\* A tick axis that starts at 1.
arangeFromOne(n) == [t \in 0 .. n - 1 |-> t + 1]

\* np.arange(n)
arange(n) == [t \in 0 .. n - 1 |-> t]

\* t / 24.0
DayOf(t) == [num |-> t, den |-> HoursPerDay]

\* An activation mask with a strict comparison.
QecActiveStrict(day, qec_day) == day.num > qec_day * day.den

\* An activation mask that compares the tick index with the day.
QecActiveByTick(day, qec_day) == day.num >= qec_day

\* days >= self.qec_day, for one day value.
QecActive(day, qec_day) == day.num >= qec_day * day.den

\* 15 + 5 * sin(2 pi t / 24) + g, in thousandths of a degree.
TempAt(t, g) == TempMean + TempAmp * Sin(t, HoursPerDay) + g

\* pink_noise(...) * 0.02, in millionths.
ScaleNoise(p) == IF p = NaN THEN NaN ELSE p * NoiseScale

\* 0.70 - (temp - 15) * 0.012 + noise
BaselineSc(temp, noise) ==
  IF noise = NaN THEN NaN ELSE BaseSc - (temp - TempMean) * SensSc + noise

\* 0.85 - (temp - 15) * 0.004 + noise * 0.5
BaselineTi(temp, noise) ==
  IF noise = NaN THEN NaN
  ELSE BaseTi - (temp - TempMean) * SensTi + (noise \div 2)

\* base[qec_active] += uplift, for one element.
Uplift(base, active, uplift) ==
  IF base = NaN THEN NaN ELSE IF active THEN base + uplift ELSE base

\* A clip with the ceiling only.
clipCeilingOnly(x) == IF x = NaN THEN NaN ELSE IF x > One THEN One ELSE x

\* np.clip(x, 0, 1), for one element (nan stays nan).
clip(x) ==
  IF x = NaN THEN NaN ELSE IF x < 0 THEN 0 ELSE IF x > One THEN One ELSE x

\* A generator that every call starts from the same position.
AfterDrawsReset(s, n) == s

\* The generator after n gaussian draws from state s.
AfterDraws(s, n) == RngAdvance(s, n)

\* run_simulation on the object self with the generator in state g: the four
\* returned arrays, the intermediate arrays, and the generator at entry
\* (start) and at return (stop).
run_simulation(self, g) ==
  LET n == self.ticks
      t == arange(n)
      days == Array([k \in 0 .. n - 1 |-> DayOf(t[k])])
      normal == DrawN(g, n)
      g1 == AfterDraws(g, n)
      temp == Array([k \in 0 .. n - 1 |-> TempAt(t[k], normal[k])])
      qec_active == Array([k \in 0 .. n - 1 |-> QecActive(days[k], self.qec_day)])
      white == DrawN(g1, n)
      pink == pink_noise(g1, n)
      g2 == AfterDraws(g1, n)
      noise == Array([k \in 0 .. n - 1 |-> ScaleNoise(pink[k])])
      base_sc == Array([k \in 0 .. n - 1 |->
                   Uplift(BaselineSc(temp[k], noise[k]), qec_active[k], UpliftSc)])
      base_ti == Array([k \in 0 .. n - 1 |->
                   Uplift(BaselineTi(temp[k], noise[k]), qec_active[k], UpliftTi)])
  IN  [days |-> days,
       fidelity_sc |-> Array([k \in 0 .. n - 1 |-> clip(base_sc[k])]),
       fidelity_ti |-> Array([k \in 0 .. n - 1 |-> clip(base_ti[k])]),
       temp |-> temp,
       normal |-> normal, white |-> white, noise |-> noise,
       base_sc |-> base_sc, base_ti |-> base_ti,
       start |-> g, stop |-> g2]

(***************************************************************************)
(* The program's state: the process-wide generator, the objects, the       *)
(* constructor calls made so far and the results of the runs so far.       *)
(***************************************************************************)
VARIABLES
  rng,      \* state of the process-wide generator
  nseed,    \* number of np.random.seed calls that took effect
  engines,  \* the fields of each object
  calls,    \* per object: the outcome of its constructor call, and the seed
            \* that call gave the generator (0 if it gave none)
  runs,     \* the results of the run_simulation calls, oldest first
  probe     \* a direct call of pink_noise or of the fidelity transform

vars == << rng, nseed, engines, calls, runs, probe >>

EngineOrder == << "a", "b" >>
Engines == {EngineOrder[k] : k \in DOMAIN EngineOrder}
DaysIn == -1 .. MaxDays
QecIn == -1 .. MaxDays + 1
Seeds == {-1, 42}
FreshStates == {3, 50000}

NoCall == [status |-> "none", err |-> "", seed |-> 0]
Idle == [kind |-> "idle"]

\* At process start no object exists and the generator is in a state the
\* program did not choose.
Init ==
  /\ rng \in FreshStates
  /\ nseed = 0
  /\ engines = [i \in Engines |-> Blank]
  /\ calls = [i \in Engines |-> NoCall]
  /\ runs = << >>
  /\ probe = Idle

\* i = QuantumMissionControl(duration_days, qec_day, seed)
Construct(i, duration_days, qec_day, seed) ==
  /\ calls[i].status = "none"
  /\ \A k \in DOMAIN EngineOrder :
       (k > 1 /\ EngineOrder[k] = i) => calls[EngineOrder[k - 1]].status # "none"
  /\ \E r \in {QuantumMissionControl(duration_days, qec_day, seed, rng)} :
       /\ rng' = r.rng
       /\ nseed' = nseed + r.seeded
       /\ engines' = [engines EXCEPT ![i] = r.self]
       /\ calls' = [calls EXCEPT ![i] =
                      [status |-> IF r.err = "" THEN "returned" ELSE "raised",
                       err |-> r.err,
                       seed |-> IF r.seeded = 1 THEN seed ELSE 0]]
  /\ UNCHANGED << runs, probe >>

\* i.run_simulation()
Run(i) ==
  /\ calls[i].status = "returned"
  /\ Len(runs) < MaxRuns
  /\ \E r \in {run_simulation(engines[i], rng)} :
       /\ rng' = r.stop
       /\ runs' = Append(runs, [eng |-> i, nseed |-> nseed] @@ r)
  /\ UNCHANGED << nseed, engines, calls, probe >>

Next ==
  \/ \E i \in Engines, d \in DaysIn, q \in QecIn, s \in Seeds :
       Construct(i, d, q, s)
  \/ \E i \in Engines : Run(i)

Spec == Init /\ [][Next]_vars

(***************************************************************************)
(* pink_noise called on its own, for every sample count of Lengths.        *)
(***************************************************************************)
NoiseStarts == {np_random_seed(s) : s \in 0 .. 7}

InitNoise ==
  /\ rng \in NoiseStarts
  /\ nseed = 1
  /\ engines = [i \in Engines |-> Blank]
  /\ calls = [i \in Engines |-> NoCall]
  /\ runs = << >>
  /\ \E n \in Lengths : probe = [kind |-> "noise_call", n |-> n]

\* self.pink_noise(n)
PinkNoiseCall ==
  /\ probe.kind = "noise_call"
  /\ LET n == probe.n
     IN  /\ probe' = [kind |-> "noise_done", n |-> n,
                      f |-> ClampDC(rfftfreq(n)),
                      divisors |-> Divisors(n),
                      samples |-> pink_noise(rng, n)]
         /\ rng' = AfterDraws(rng, n)
  /\ UNCHANGED << nseed, engines, calls, runs >>

NextNoise == PinkNoiseCall

SpecNoise == InitNoise /\ [][NextNoise]_vars

(***************************************************************************)
(* The fidelity transform of run_simulation (lines 74-82) applied to one   *)
(* element, for temperatures and noise values over the whole range.        *)
(***************************************************************************)
TempSamples ==
  {-250000, -40000, -20000, 0, 10000, 15000, 20000, 33000, 50000, 80000,
   120000, 250000}
NoiseSamples == {-2000000, -300000, -76000, 0, 76000, 300000, 2000000}

InitFid ==
  /\ rng \in FreshStates
  /\ nseed = 0
  /\ engines = [i \in Engines |-> Blank]
  /\ calls = [i \in Engines |-> NoCall]
  /\ runs = << >>
  /\ \E temp \in TempSamples, noise \in NoiseSamples, active \in BOOLEAN :
       probe = [kind |-> "fid_in", temp |-> temp, noise |-> noise,
                active |-> active]

Transform ==
  /\ probe.kind = "fid_in"
  /\ LET base_sc == Uplift(BaselineSc(probe.temp, probe.noise), probe.active,
                           UpliftSc)
         base_ti == Uplift(BaselineTi(probe.temp, probe.noise), probe.active,
                           UpliftTi)
     IN  probe' = [kind |-> "fid_out", temp |-> probe.temp,
                   noise |-> probe.noise, active |-> probe.active,
                   base_sc |-> base_sc, base_ti |-> base_ti,
                   fidelity_sc |-> clip(base_sc),
                   fidelity_ti |-> clip(base_ti)]
  /\ UNCHANGED << rng, nseed, engines, calls, runs >>

NextFid == Transform

SpecFid == InitFid /\ [][NextFid]_vars
(***************************************************************************)
(* Properties.                                                             *)
(***************************************************************************)
\* The runs made by object i, as indices of runs.
RunsOf(i) == {j \in DOMAIN runs : runs[j].eng = i}

\* What run_simulation returns.
Returned(r) == << r.days, r.fidelity_sc, r.fidelity_ti, r.temp >>

\* The condition under which the constructor is specified to fail.
Rejected(d, q) == d <= 0 \/ q < 0 \/ q > d

\* A step that is a call of run_simulation.
RunStep == Len(runs') = Len(runs) + 1

\* C1: for all integers duration_days, qec_day and ANY seed, the constructor
\* fails if and only if duration_days <= 0 or qec_day < 0 or
\* qec_day > duration_days; every other combination constructs successfully.
C1_FailsIffRejected ==
  [][\A i \in Engines, d \in DaysIn, q \in QecIn, s \in Seeds :
       Construct(i, d, q, s) =>
         ((calls'[i].status = "raised") <=> Rejected(d, q))]_vars

\* C2: two objects constructed with the same seed and the same configuration,
\* each run exactly once, return identical series, in whatever order the two
\* constructions and the two runs took place.
C2_SameSeedSameOutput ==
  \A j \in DOMAIN runs, k \in DOMAIN runs :
    LET a == runs[j].eng
        b == runs[k].eng
    IN  ( /\ a # b
          /\ calls[a].seed = calls[b].seed
          /\ engines[a] = engines[b]
          /\ Cardinality(RunsOf(a)) = 1
          /\ Cardinality(RunsOf(b)) = 1 )
        => Returned(runs[j]) = Returned(runs[k])

\* C3: whatever the temperature and the noise, both fidelities lie in [0, 1]:
\* a value below 0 before the clamp is returned as 0, one above 1 as 1, and
\* one inside the range unchanged.
Saturated(base, fid) ==
  /\ 0 <= fid /\ fid <= One
  /\ base < 0 => fid = 0
  /\ base > One => fid = One
  /\ (0 <= base /\ base <= One) => fid = base

C3_FidelityClamped ==
  probe.kind = "fid_out" =>
    /\ Saturated(probe.base_sc, probe.fidelity_sc)
    /\ Saturated(probe.base_ti, probe.fidelity_ti)

C3_Witness ==
  /\ probe.kind = "fid_out"
  /\ probe.base_sc < 0 /\ probe.fidelity_sc = 0
  /\ probe.base_ti < 0 /\ probe.fidelity_ti = 0

\* C4: a run returns four series of length duration_days * 24 each, and
\* days[t] = t / 24 for every tick t = 0 .. duration_days * 24 - 1.
C4_FourSeriesOfTicksLength ==
  \A j \in DOMAIN runs :
    LET r == runs[j]
        n == engines[r.eng].duration_days * 24
    IN  /\ DOMAIN r.days = 0 .. n - 1
        /\ DOMAIN r.fidelity_sc = 0 .. n - 1
        /\ DOMAIN r.fidelity_ti = 0 .. n - 1
        /\ DOMAIN r.temp = 0 .. n - 1
        /\ Cardinality(DOMAIN r.days) = n
        /\ \A t \in 0 .. n - 1 : r.days[t].num = t /\ r.days[t].den = 24

C4_Witness ==
  \E j \in DOMAIN runs : engines[runs[j].eng].duration_days >= 2

\* C5: tick t receives the uplift (0.22 for SC, 0.07 for TI), whole, if and
\* only if t >= 24 * qec_day; with qec_day = 0 every tick receives it.
UpliftAt(r, t) ==
  << r.base_sc[t] - BaselineSc(r.temp[t], r.noise[t]),
     r.base_ti[t] - BaselineTi(r.temp[t], r.noise[t]) >>

C5_UpliftFromActivationTick ==
  \A j \in DOMAIN runs :
    LET r == runs[j]
        q == engines[r.eng].qec_day
    IN  \A t \in DOMAIN r.days :
          UpliftAt(r, t) = IF t >= 24 * q THEN << 220000, 70000 >>
                           ELSE << 0, 0 >>

C5_Witness ==
  \E j \in DOMAIN runs :
    LET e == engines[runs[j].eng]
    IN  /\ 0 < e.qec_day /\ e.qec_day < e.duration_days
        /\ UpliftAt(runs[j], 24 * e.qec_day - 1) = << 0, 0 >>
        /\ UpliftAt(runs[j], 24 * e.qec_day) = << 220000, 70000 >>

\* C6: with qec_day = duration_days > 0 the validation accepts the
\* configuration (the constructor returns, given a seed the generator takes),
\* and the run applies the uplift to no tick, the largest day value being
\* below duration_days.
C6_NoUpliftAtHorizon ==
  /\ [][\A i \in Engines, d \in DaysIn, s \in Seeds :
          (d > 0 /\ Construct(i, d, d, s)) =>
            /\ calls'[i].err # "InvalidConfiguration"
            /\ s >= 0 => calls'[i].status = "returned"]_vars
  /\ [](\A j \in DOMAIN runs :
          LET r == runs[j]
              e == engines[r.eng]
          IN  e.qec_day = e.duration_days =>
                /\ \A t \in DOMAIN r.days : UpliftAt(r, t) = << 0, 0 >>
                /\ \A t \in DOMAIN r.days :
                     r.days[t].num < e.duration_days * r.days[t].den)

C6_Witness ==
  \E j \in DOMAIN runs :
    LET e == engines[runs[j].eng]
    IN  e.qec_day = e.duration_days /\ e.duration_days >= 2

\* C7: a construction that fails validation has no effect: the generator is
\* not reseeded, no field is stored and no other state changes; a
\* construction that returns seeds the generator exactly once, with its seed.
C7_FailedValidationHasNoEffect ==
  [][\A i \in Engines, d \in DaysIn, q \in QecIn, s \in Seeds :
       Construct(i, d, q, s) =>
         /\ Rejected(d, q) =>
              /\ rng' = rng /\ nseed' = nseed
              /\ engines' = engines /\ ~engines'[i].stored
              /\ runs' = runs
              /\ calls'[i].err = "InvalidConfiguration"
         /\ calls'[i].status = "returned" =>
              /\ nseed' = nseed + 1
              /\ rng' = np_random_seed(s)]_vars

C7_Witness ==
  /\ calls["a"].status = "returned"
  /\ calls["b"].err = "InvalidConfiguration"
  /\ Len(runs) >= 1
  /\ rng = runs[Len(runs)].stop
  /\ rng # np_random_seed(calls["a"].seed)

\* C8: in pink_noise, for every n >= 1, every divisor of the spectrum is
\* strictly positive (bin 0 is 1.0, bin k >= 1 is k / n), so that no
\* coefficient is divided by zero and every sample is finite.
C8_DivisorsPositive ==
  probe.kind = "noise_done" =>
    /\ probe.n >= 1
    /\ DOMAIN probe.f = 0 .. (probe.n \div 2)
    /\ probe.f[0] = 1000000
    /\ \A k \in DOMAIN probe.f :
         /\ k >= 1 => probe.f[k] = (k * 1000000) \div probe.n
         /\ probe.f[k] > 0
         /\ probe.divisors[k] > 0
    /\ DOMAIN probe.samples = 0 .. probe.n - 1
    /\ \A t \in DOMAIN probe.samples : probe.samples[t] # NaN

C8_Witness ==
  /\ probe.kind = "noise_done"
  /\ probe.n >= 2
  /\ \E t \in DOMAIN probe.samples : probe.samples[t] # 0

\* C9: the generator is seeded in the constructor only.  A run draws the
\* temperature perturbations, then the white noise, and leaves the generator
\* 2 * ticks draws further; the next run starts where the previous one
\* stopped, and a second run of the same object does not return what the
\* first returned.
C9_RunsContinueTheStream ==
  /\ [][RunStep => (nseed' = nseed /\ runs'[Len(runs')].start = rng
                    /\ rng' = runs'[Len(runs')].stop)]_vars
  /\ [](\A j \in DOMAIN runs :
          LET r == runs[j]
              n == engines[r.eng].ticks
          IN  /\ r.normal = DrawN(r.start, n)
              /\ r.white = DrawN(RngAdvance(r.start, n), n)
              /\ r.stop = RngAdvance(r.start, 2 * n)
              /\ r.stop # r.start
              /\ (j > 1 /\ runs[j - 1].nseed = r.nseed) =>
                   /\ r.start = runs[j - 1].stop
                   /\ runs[j - 1].eng = r.eng =>
                        Returned(r) # Returned(runs[j - 1]))

C9_Witness ==
  \E j \in DOMAIN runs :
    /\ j > 1
    /\ runs[j - 1].eng = runs[j].eng
    /\ runs[j - 1].nseed = runs[j].nseed
    /\ runs[j].temp # runs[j - 1].temp

\* C10: the configuration of a constructed object satisfies
\* duration_days > 0, 0 <= qec_day <= duration_days and
\* ticks = duration_days * 24, and never changes; a run changes nothing but
\* the position of the generator (and returns its result).
C10_ConfigurationImmutable ==
  /\ [](\A i \in Engines :
          calls[i].status = "returned" =>
            /\ engines[i].stored
            /\ engines[i].duration_days > 0
            /\ 0 <= engines[i].qec_day
            /\ engines[i].qec_day <= engines[i].duration_days
            /\ engines[i].ticks = engines[i].duration_days * 24)
  /\ [][\A i \in Engines :
          calls[i].status = "returned" =>
            (engines'[i] = engines[i] /\ calls'[i] = calls[i])]_vars
  /\ [][RunStep => (engines' = engines /\ calls' = calls /\ nseed' = nseed
                    /\ probe' = probe
                    /\ SubSeq(runs', 1, Len(runs)) = runs)]_vars

C10_Witness ==
  \E i \in Engines :
    /\ calls[i].status = "returned"
    /\ Cardinality(RunsOf(i)) >= 2
====
